---- MODULE Spec2Model ----
(***************************************************************************)
(* ctapipe.image.toymodel: the toy shower model builder                    *)
(* (generate_2d_shower_model), the image rasterizer                        *)
(* (make_toymodel_shower_image) and the muon ring density                  *)
(* (generate_muon_model), as a state machine whose actions are calls.      *)
(*                                                                         *)
(* Real numbers are exact rationals <<num, den>> in lowest terms, den > 0. *)
(* Rotation angles are the eight angles whose sine and cosine are          *)
(* multiples of 1/5, so that R C R^T is computed exactly.  Densities at    *)
(* the pixel positions are multiples of 1/DensityDen.  Floating-point      *)
(* rounding is not modelled.                                               *)
(***************************************************************************)
EXTENDS Integers, Sequences, FiniteSets, TLC

VARIABLES
  geom,   \* the CameraGeometry: the pixel array's shape and pix_x, pix_y
  model,  \* the caller's shower model (the frozen distribution), once built
  rng,    \* np.random's process-wide generator: the variates it has handed out
  argv,   \* the arguments the caller passes in this run
  ret     \* the last call: what it raised, what it returned, its locals

vars == <<geom, model, rng, argv, ret>>

\* ------------------------------------------------------------------ bounds

\* Largest value a Poisson variate takes in the model (its support is Nat).
MaxDraw == 1

\* Most variates the process-wide generator hands out before the model stops.
MaxRng == 8

\* ------------------------------------------------------- exact arithmetic

Abs(n) == IF n < 0 THEN -n ELSE n

RECURSIVE GCD(_, _)
GCD(a, b) == IF b = 0 THEN a ELSE GCD(b, a % b)

\* the rational n/d in lowest terms with a positive denominator
Rat(n, d) ==
  LET g == GCD(Abs(n), Abs(d))
      s == IF d < 0 THEN -1 ELSE 1
  IN <<(s * n) \div g, (s * d) \div g>>

RatInt(n) == <<n, 1>>
RatAdd(a, b) == Rat(a[1] * b[2] + b[1] * a[2], a[2] * b[2])
RatSub(a, b) == Rat(a[1] * b[2] - b[1] * a[2], a[2] * b[2])
RatMul(a, b) == Rat(a[1] * b[1], a[2] * b[2])
RatSign(a) == IF a[1] < 0 THEN -1 ELSE IF a[1] = 0 THEN 0 ELSE 1

RECURSIVE SumSeq(_)
SumSeq(s) == IF s = <<>> THEN 0 ELSE Head(s) + SumSeq(Tail(s))

RECURSIVE Product(_)
Product(s) == IF s = <<>> THEN 1 ELSE Head(s) * Product(Tail(s))

\* ------------------------------------------------- generate_2d_shower_model

\* psi: the angle with cos = c5/5 and sin = s5/5, counter-clockwise from the x-axis
Rotations ==
  { [c5 |-> 5, s5 |-> 0], [c5 |-> 3, s5 |-> 4], [c5 |-> 0, s5 |-> 5],
    [c5 |-> -4, s5 |-> 3], [c5 |-> -5, s5 |-> 0], [c5 |-> -3, s5 |-> -4],
    [c5 |-> 0, s5 |-> -5], [c5 |-> 4, s5 |-> -3] }

PsiZero == [c5 |-> 5, s5 |-> 0]

\* psi + pi: cos and sin both change sign
PsiPlusPi(psi) == [c5 |-> -psi.c5, s5 |-> -psi.s5]

\* 2x2 matrices are <<<<a, b>>, <<c, d>>>> of rationals
MatEntry(A, B, i, j) ==
  RatAdd(RatMul(A[i][1], B[1][j]), RatMul(A[i][2], B[2][j]))

MatMul(A, B) ==
  <<<<MatEntry(A, B, 1, 1), MatEntry(A, B, 1, 2)>>,
    <<MatEntry(A, B, 2, 1), MatEntry(A, B, 2, 2)>>>>

Transpose(A) == <<<<A[1][1], A[2][1]>>, <<A[1][2], A[2][2]>>>>

\* a mutant of aligned_covariance: the two variances on the wrong axes
aligned_covariance_swapped(length, width) ==
  <<<<RatInt(width), RatInt(0)>>, <<RatInt(0), RatInt(length)>>>>

\* a mutant of aligned_covariance: the signs of the variances dropped
aligned_covariance_abs(length, width) ==
  <<<<RatInt(Abs(length)), RatInt(0)>>, <<RatInt(0), RatInt(Abs(width))>>>>

\* np.array([[length, 0], [0, width]])
aligned_covariance(length, width) ==
  <<<<RatInt(length), RatInt(0)>>, <<RatInt(0), RatInt(width)>>>>

\* linalg.rotation_matrix_2d(psi): [[cos, -sin], [sin, cos]]
rotation_matrix_2d(psi) ==
  <<<<Rat(psi.c5, 5), Rat(-psi.s5, 5)>>, <<Rat(psi.s5, 5), Rat(psi.c5, 5)>>>>

\* rotation.dot(aligned_covariance).dot(rotation.T)
rotated_covariance(length, width, psi) ==
  LET rotation == rotation_matrix_2d(psi)
  IN MatMul(MatMul(rotation, aligned_covariance(length, width)),
            Transpose(rotation))

Trace(C) == RatAdd(C[1][1], C[2][2])
Det(C) == RatSub(RatMul(C[1][1], C[2][2]), RatMul(C[1][2], C[2][1]))

\* no frozen distribution: the caller's variable before a model is built
NoModel == [built |-> FALSE, mean |-> <<>>, cov |-> <<>>]

\* multivariate_normal(mean=centroid, cov=...): the frozen distribution, or the
\* error its constructor raises.  A mean that is not a 2-vector does not match
\* the 2x2 covariance; a negative eigenvalue (det < 0, or trace < 0) is "not
\* positive semidefinite"; a zero eigenvalue is "singular matrix" since
\* allow_singular is left False.
multivariate_normal(centroid, cov) ==
  IF Len(centroid) # 2 THEN [raised |-> "ValueError", obj |-> NoModel]
  ELSE IF RatSign(Det(cov)) < 0 \/ RatSign(Trace(cov)) < 0
    THEN [raised |-> "ValueError", obj |-> NoModel]
  ELSE IF RatSign(Det(cov)) = 0
    THEN [raised |-> "LinAlgError", obj |-> NoModel]
  ELSE [raised |-> "none",
        obj |-> [built |-> TRUE, mean |-> centroid, cov |-> cov]]

\* the whole of generate_2d_shower_model: what it raises and what it returns
generate_2d_shower_model(centroid, width, length, psi) ==
  multivariate_normal(centroid, rotated_covariance(length, width, psi))

\* The exponent of the frozen distribution's density at point pt is
\* -Mahalanobis(d, pt) / 2 and its normalisation is 1 / (2 pi sqrt(det cov)):
\* two distributions with equal Mahalanobis forms and determinants have the
\* same pdf.
Mahalanobis(d, pt) ==
  LET dx == RatInt(pt[1] - d.mean[1])
      dy == RatInt(pt[2] - d.mean[2])
      C == d.cov
      \* (dx, dy) adj(C) (dx, dy)^T / det(C)
      q == RatAdd(RatSub(RatMul(RatMul(dx, dx), C[2][2]),
                         RatMul(RatMul(dx, dy), RatAdd(C[1][2], C[2][1]))),
                  RatMul(RatMul(dy, dy), C[1][1]))
      dt == Det(C)
  IN Rat(q[1] * dt[2], q[2] * dt[1])

Centroids == { <<0, 0>>, <<1, 0>>, <<0, 0, 0>>, <<0>> }
Variances == { -1, 0, 1, 2 }

ShowerParams ==
  [centroid : Centroids, width : Variances, length : Variances, psi : Rotations]

\* examples/camera_norms.py builds one model: centroid on the x-axis,
\* length larger than width, psi between 0 and 90 degrees
ScriptParams ==
  [centroid |-> <<1, 0>>, width |-> 1, length |-> 2,
   psi |-> [c5 |-> 3, s5 |-> 4]]

NoCall == [op |-> "none", raised |-> "none"]

\* model = generate_2d_shower_model(**argv.shower)
GenerateShowerModel ==
  LET p == argv.shower
      cov == rotated_covariance(p.length, p.width, p.psi)
      out == generate_2d_shower_model(p.centroid, p.width, p.length, p.psi)
  IN /\ ret' = [op |-> "generate_2d_shower_model", raised |-> out.raised,
                cov |-> cov, dist |-> out.obj]
     /\ model' = IF out.raised = "none" THEN out.obj ELSE model
     /\ UNCHANGED <<geom, rng, argv>>

\* ---------------------------------------------------------- the geometry

\* the pixel-array shapes of the geometries the model runs on
Shapes == { <<1>>, <<2>>, <<1, 2>>, <<2, 1>> }

\* CameraGeometry: pix_x and pix_y, flattened in C order, with their shape
Geometry(shape) ==
  [shape |-> shape,
   pix_x |-> [k \in 1..Product(shape) |-> k - 1],
   pix_y |-> [k \in 1..Product(shape) |-> 1 - k]]

Geoms == { Geometry(s) : s \in Shapes }

\* a mutant of fill_pos: pos aliases geom.pix_x, so filling it writes the geometry
fill_pos_inplace(g) ==
  [pos |-> [k \in 1..Len(g.pix_x) |-> <<g.pix_x[k], g.pix_y[k]>>],
   geom |-> [g EXCEPT !.pix_x = g.pix_y]]

\* pos = np.empty(shape + (2,)); pos[..., 0] = pix_x.value; pos[..., 1] = pix_y.value
\* a fresh array: the geometry is read, and is the same afterwards
fill_pos(g) ==
  [pos |-> [k \in 1..Len(g.pix_x) |-> <<g.pix_x[k], g.pix_y[k]>>],
   geom |-> g]

\* ------------------------------------------------ make_toymodel_shower_image

\* densities are multiples of 1 / DensityDen
DensityDen == 4

\* np.int32
Int32Max == 2147483647
Int32Min == (-Int32Max) - 1

\* intensity=50
DefaultIntensity == 50

\* The density functions passed as showerpdf, as numerators over DensityDen:
\* "peak" is 1.5 at the origin, 0.75 within sqrt(2) of it and 0 beyond;
\* "faint" is below 1 everywhere; "narrow" is a very narrow shower,
\* 2^30 / DensityDen at the origin.
density(table, pt) ==
  LET r2 == pt[1] * pt[1] + pt[2] * pt[2]
  IN IF table = "peak"
       THEN (IF r2 = 0 THEN 6 ELSE IF r2 <= 2 THEN 3 ELSE 0)
     ELSE IF table = "faint"
       THEN (IF r2 = 0 THEN 3 ELSE 1)
     ELSE (IF r2 = 0 THEN 1073741824 ELSE 1)

Squeeze(shape) == SelectSeq(shape, LAMBDA d : d # 1)

\* showerpdf(pos): one density per point.  A frozen scipy distribution's pdf
\* (model.pdf, as the module's example and examples/camera_norms.py pass it)
\* squeezes the length-1 axes out of its result; any other callable here
\* returns the points' shape.
showerpdf(f, pos, shape) ==
  [shape |-> IF f.kind = "model.pdf" THEN Squeeze(shape) ELSE shape,
   data |-> [k \in 1..Len(pos) |-> density(f.table, pos[k])]]

\* (density * intensity).astype(np.int32) of one element, density = dn / DensityDen
\* >= 0: the product is truncated toward zero; a product outside the int32
\* range is undefined behaviour of the C cast, ub being its outcome.
astype_int32(dn, intensity, ub) ==
  LET a == Abs(intensity)
      whole == dn \div DensityDen
      e == ((dn % DensityDen) * a) \div DensityDen
  IN IF intensity = 0 THEN 0
     ELSE IF whole > (Int32Max - e) \div a THEN ub
     ELSE IF intensity > 0 THEN whole * a + e
     ELSE -(whole * a + e)

\* a mutant of poisson: the variate is returned whatever the rate
poisson_any(lam, u) == u

\* a mutant of poisson: the fluctuation about the rate instead of the count
poisson_centred(lam, u) == u - lam

\* np.random.poisson(lam) for lam >= 0: 0 when lam = 0, else any count (u)
poisson(lam, u) == IF lam = 0 THEN 0 ELSE u

\* a mutant of mean: integer division
mean_floor(noise) == RatInt(SumSeq(noise) \div Len(noise))

\* np.mean(noise)
mean(noise) == Rat(SumSeq(noise), Len(noise))

\* (signal + noise) - np.mean(noise)
pedestal_subtract(signal, noise) ==
  LET m == mean(noise)
  IN [k \in 1..Len(signal) |-> RatSub(RatInt(signal[k] + noise[k]), m)]

Failed(what, counts, drawn, g) ==
  [ret |-> [op |-> "make_toymodel_shower_image", raised |-> what,
            model_counts |-> counts, shape |-> <<>>,
            image |-> <<>>, signal |-> <<>>, noise |-> <<>>],
   drawn |-> drawn, geom |-> g]

\* The whole call.  ub is the outcome of an out-of-range int32 cast, u1 and u2
\* the generator's variates for the signal and the noise.
make_toymodel_shower_image(g, f, intensity, nsb_level_pe, ub, u1, u2) ==
  LET filled == fill_pos(g)
      d == showerpdf(f, filled.pos, g.shape)
      n == Len(d.data)
      model_counts == [k \in 1..n |-> astype_int32(d.data[k], intensity, ub)]
      signal == [k \in 1..n |-> poisson(model_counts[k], u1[k])]
      noise == [k \in 1..n |-> poisson(nsb_level_pe, u2[k])]
  IN IF \E k \in 1..n : model_counts[k] < 0
       \* np.random.poisson: ValueError, lam < 0
       THEN Failed("ValueError", model_counts, 0, filled.geom)
     ELSE IF d.shape = <<>>
       \* the pdf returned a scalar, so signal is a Python int: signal.shape
       THEN Failed("AttributeError", model_counts, n, filled.geom)
     ELSE IF nsb_level_pe < 0
       THEN Failed("ValueError", model_counts, n, filled.geom)
     ELSE [ret |-> [op |-> "make_toymodel_shower_image", raised |-> "none",
                    model_counts |-> model_counts, shape |-> d.shape,
                    image |-> pedestal_subtract(signal, noise),
                    signal |-> signal, noise |-> noise],
           drawn |-> 2 * n, geom |-> filled.geom]

\* What an out-of-range conversion to int32 yields is undefined in C: builds
\* give the most negative value (x86) or saturate (ARM).
Int32Overflow == { Int32Min, Int32Max }

\* the product (dn / DensityDen) * intensity does not fit an int32
OutOfRange(dn, intensity) ==
  intensity # 0
    /\ dn \div DensityDen
         > (Int32Max - ((dn % DensityDen) * Abs(intensity)) \div DensityDen)
             \div Abs(intensity)

\* the outcomes of the call's conversions: a choice only where one overflows
CastOutcomes(g, f, intensity) ==
  IF \E k \in 1..Len(g.pix_x) :
       OutOfRange(density(f.table, <<g.pix_x[k], g.pix_y[k]>>), intensity)
    THEN Int32Overflow
    ELSE { Int32Max }

ShowerPdfs == [kind : {"model.pdf", "callable"}, table : {"peak", "faint", "narrow"}]
Intensities == { -1, 0, 1, DefaultIntensity }
NsbLevels == { -1, 0, 1 }

ImageArgs == [showerpdf : ShowerPdfs, intensity : Intensities,
              nsb_level_pe : NsbLevels]

\* image, signal, noise = make_toymodel_shower_image(geom, showerpdf, ...)
MakeToymodelShowerImage ==
  LET a == argv.image
      n == Len(geom.pix_x)
  IN /\ a.showerpdf.kind = "model.pdf" => model.built
     /\ rng + 2 * n <= MaxRng
     /\ \E ub \in CastOutcomes(geom, a.showerpdf, a.intensity),
           u1, u2 \in [1..n -> 0..MaxDraw] :
          LET out == make_toymodel_shower_image(
                       geom, a.showerpdf, a.intensity, a.nsb_level_pe,
                       ub, u1, u2)
          IN /\ ret' = out.ret
             /\ rng' = rng + out.drawn
             /\ geom' = out.geom
     /\ UNCHANGED <<model, argv>>

\* -------------------------------------------------------- generate_muon_model

\* np.exp(-(x-mean)**2./(2.*sigma*sigma)) at x = sqrt(r2), on numpy floats:
\* sigma = 0 divides by 0.0, which gives nan for 0/0 (x = mean) and -inf
\* otherwise, and exp turns these into nan and 0.0.  For sigma # 0 the value is
\* 1 at x = mean and exp(-(sqrt(r2) - mean)^2 / (2 sigma^2)), in (0, 1), elsewhere.
Gauss(r2, mean_, sigma) ==
  IF sigma = 0
    THEN IF mean_ >= 0 /\ mean_ * mean_ = r2 THEN [kind |-> "nan", r2 |-> r2]
         ELSE [kind |-> "zero", r2 |-> r2]
  ELSE IF mean_ >= 0 /\ mean_ * mean_ = r2 THEN [kind |-> "one", r2 |-> r2]
  ELSE [kind |-> "exp", r2 |-> r2]

\* r_pix squared: (xy[...,0]-centre_x)**2 + (xy[...,1]-centre_y)**2
r_pix2(pt, centre_x, centre_y) ==
  (pt[1] - centre_x) * (pt[1] - centre_x) + (pt[2] - centre_y) * (pt[2] - centre_y)

\* the whole call: Im_pix, of xy's leading shape; nothing in it raises
generate_muon_model(xy, shape, radius, width, centre_x, centre_y) ==
  [op |-> "generate_muon_model", raised |-> "none", shape |-> shape,
   Im_pix |-> [k \in 1..Len(xy) |->
                 Gauss(r_pix2(xy[k], centre_x, centre_y), radius, width)]]

MuonArgs == [radius : {0, 1, 2}, width : {0, 1, 2}, centre_x : {0, 1},
             centre_y : {0, 1}]

\* Im_pix = generate_muon_model(pos, radius, width, centre_x, centre_y)
GenerateMuonModel ==
  LET a == argv.muon
  IN /\ ret' = generate_muon_model(fill_pos(geom).pos, geom.shape, a.radius,
                                   a.width, a.centre_x, a.centre_y)
     /\ UNCHANGED <<geom, model, rng, argv>>

\* ------------------------------------------------------- the specifications

DefaultImageArgs ==
  [showerpdf |-> [kind |-> "callable", table |-> "peak"],
   intensity |-> DefaultIntensity, nsb_level_pe |-> 1]

DefaultMuonArgs == [radius |-> 1, width |-> 1, centre_x |-> 0, centre_y |-> 0]

\* The rasterizer: a run builds the script's model and makes images, with the
\* run's arguments drawn at the start.
Init ==
  /\ geom \in Geoms
  /\ model = NoModel
  /\ rng = 0
  /\ argv \in [shower : {ScriptParams}, image : ImageArgs,
               muon : {DefaultMuonArgs}]
  /\ ret = NoCall

Next == GenerateShowerModel \/ MakeToymodelShowerImage

Spec == Init /\ [][Next]_vars

\* The model builder alone, over all its parameters.
InitModel ==
  /\ geom = Geometry(<<1>>)
  /\ model = NoModel
  /\ rng = 0
  /\ argv \in [shower : ShowerParams, image : {DefaultImageArgs},
               muon : {DefaultMuonArgs}]
  /\ ret = NoCall

NextModel == GenerateShowerModel

SpecModel == InitModel /\ [][NextModel]_vars

\* The muon ring density alone, over all its parameters.
InitMuon ==
  /\ geom \in Geoms
  /\ model = NoModel
  /\ rng = 0
  /\ argv \in [shower : {ScriptParams}, image : {DefaultImageArgs},
               muon : MuonArgs]
  /\ ret = NoCall

NextMuon == GenerateMuonModel

SpecMuon == InitMuon /\ [][NextMuon]_vars

\* ------------------------------------------------------------- the claims

IsImage == ret.op = "make_toymodel_shower_image"
Returned == IsImage /\ ret.raised = "none"
IsShower == ret.op = "generate_2d_shower_model"
IsMuon == ret.op = "generate_muon_model"

Pixels == 1..Len(geom.pix_x)

\* the density (over DensityDen) the call's showerpdf has at pixel k
DensAt(k) == density(argv.image.showerpdf.table, <<geom.pix_x[k], geom.pix_y[k]>>)

\* C1: whenever the rasterizer returns, image[p] = signal[p] + noise[p] - m at
\* every pixel, m being the mean of the returned noise array (sum / count).
C1_PedestalIsRealizedMean ==
  Returned =>
    \A k \in 1..Len(ret.image) :
      ret.image[k][1] * Len(ret.noise)
        = ret.image[k][2] * ((ret.signal[k] + ret.noise[k]) * Len(ret.noise)
                             - SumSeq(ret.noise))

\* C1 witness: a returned image whose realized noise mean is fractional, so it
\* differs from the nominal nsb_level, and which is negative at some pixel
C1_Witness ==
  /\ Returned
  /\ SumSeq(ret.noise) % Len(ret.noise) # 0
  /\ \E k \in 1..Len(ret.image) : ret.image[k][1] < 0

\* C2 as stated: a call with intensity <= 0 fails and returns no triple.
C2_NonPositiveIntensityRejected ==
  (IsImage /\ argv.image.intensity <= 0) => ret.raised # "none"

\* the product density * intensity of pixel k is <= -1
C2_ProductAtMostMinusOne(k) ==
  argv.image.intensity < 0
    /\ DensAt(k) * (-argv.image.intensity) >= DensityDen

\* C2, what the code does instead: intensity is not checked.  With
\* intensity <= 0 the call fails, with the Poisson draw's ValueError and no
\* triple, when some pixel has density * intensity <= -1; otherwise (always
\* for intensity = 0) every expected count is 0 and, the noise rate being >= 0
\* and the density result an array, the call returns a triple whose signal is
\* 0 at every pixel and whose image is noise - mean(noise).
C2_NonPositiveIntensityOutcome ==
  (IsImage /\ argv.image.intensity <= 0) =>
    IF \E k \in Pixels : C2_ProductAtMostMinusOne(k)
      THEN ret.raised = "ValueError" /\ ret.image = <<>> /\ ret.signal = <<>>
             /\ ret.noise = <<>>
      ELSE /\ \A k \in Pixels : ret.model_counts[k] = 0
           /\ (argv.image.nsb_level_pe >= 0
                 /\ (argv.image.showerpdf.kind = "callable"
                       \/ Squeeze(geom.shape) # <<>>))
                => /\ ret.raised = "none"
                   /\ \A k \in Pixels :
                        /\ ret.signal[k] = 0
                        /\ ret.image[k][1] * Len(ret.noise)
                             = ret.image[k][2]
                                 * (ret.noise[k] * Len(ret.noise)
                                    - SumSeq(ret.noise))

\* C2, the failing case: intensity = 0 and a triple is returned, with noise
C2_ZeroIntensityReturns ==
  /\ Returned
  /\ argv.image.intensity = 0
  /\ \E k \in Pixels : ret.noise[k] > 0

\* c is the product (dn / DensityDen) * intensity truncated toward zero,
\* for dn >= 0 and intensity > 0
IsTruncation(c, dn, intensity) ==
  LET e == ((dn % DensityDen) * intensity) \div DensityDen
  IN /\ c >= e
     /\ (c - e) % intensity = 0
     /\ (c - e) \div intensity = dn \div DensityDen

\* C3 as stated: for every accepted density and intensity (> 0) the expected
\* count given to the Poisson signal draw is density * intensity truncated
\* toward zero.
C3_ExpectedCountIsTruncation ==
  (IsImage /\ argv.image.intensity > 0) =>
    \A k \in Pixels :
      IsTruncation(ret.model_counts[k], DensAt(k), argv.image.intensity)

\* C4: in every returned triple, signal and noise are natural numbers at
\* every pixel.
C4_SignalAndNoiseNonNegative ==
  Returned =>
    \A k \in 1..Len(ret.signal) : ret.signal[k] \in Nat /\ ret.noise[k] \in Nat

\* C4 witness: a returned triple with a positive expected count, a drawn
\* signal, and an image that is negative somewhere
C4_Witness ==
  /\ Returned
  /\ \E k \in 1..Len(ret.signal) : ret.model_counts[k] > 0 /\ ret.signal[k] > 0
  /\ \E k \in 1..Len(ret.image) : ret.image[k][1] < 0

\* C5 as stated: every returned image, signal and noise has the shape of the
\* geometry's pixel arrays.
C5_OutputShapeIsPixelShape ==
  Returned =>
    /\ ret.shape = geom.shape
    /\ Len(ret.image) = Len(geom.pix_x)
    /\ Len(ret.signal) = Len(geom.pix_x)
    /\ Len(ret.noise) = Len(geom.pix_x)

\* C6: with nsb_level = 0 and intensity > 0, a returned triple has noise 0 and
\* image = signal at every pixel.
C6_ZeroNsbGivesSignal ==
  (Returned /\ argv.image.nsb_level_pe = 0 /\ argv.image.intensity > 0) =>
    \A k \in 1..Len(ret.noise) :
      ret.noise[k] = 0 /\ ret.image[k] = <<ret.signal[k], 1>>

\* C6 witness: such a call with a nonzero signal
C6_Witness ==
  /\ Returned
  /\ argv.image.nsb_level_pe = 0
  /\ argv.image.intensity > 0
  /\ \E k \in 1..Len(ret.signal) : ret.signal[k] > 0

\* C7 as stated: a call with width = 0 fails.
C7_ZeroWidthRejected ==
  (IsMuon /\ argv.muon.width = 0) => ret.raised # "none"

\* point k lies on the ring: its distance from the centre is the radius
C7_OnRing(k) ==
  /\ argv.muon.radius >= 0
  /\ r_pix2(<<geom.pix_x[k], geom.pix_y[k]>>, argv.muon.centre_x,
            argv.muon.centre_y) = argv.muon.radius * argv.muon.radius

\* C7, what the code does instead: with width = 0 nothing is raised: the
\* division by zero is done on numpy floats, and the array returned, of the
\* points' shape, is NaN at every point on the ring (r = radius) and 0 at
\* every other point.
C7_ZeroWidthGivesNanOrZero ==
  (IsMuon /\ argv.muon.width = 0) =>
    /\ ret.raised = "none"
    /\ ret.shape = geom.shape
    /\ Len(ret.Im_pix) = Len(geom.pix_x)
    /\ \A k \in Pixels :
         ret.Im_pix[k].kind = IF C7_OnRing(k) THEN "nan" ELSE "zero"

\* C7, the failing case: width = 0 with a point on the ring and one off it
C7_ZeroWidthReturns ==
  /\ IsMuon
  /\ argv.muon.width = 0
  /\ \E k \in Pixels : ret.Im_pix[k].kind = "nan"
  /\ \E k \in Pixels : ret.Im_pix[k].kind = "zero"

\* v^T C v for an integer vector v
QuadForm(C, v) ==
  RatAdd(RatAdd(RatMul(RatInt(v[1] * v[1]), C[1][1]),
                RatMul(RatInt(v[1] * v[2]), RatAdd(C[1][2], C[2][1]))),
         RatMul(RatInt(v[2] * v[2]), C[2][2]))

\* C is not positive semi-definite: some direction has a negative quadratic
\* form (the rotated axes are the directions (c5, s5) and (-s5, c5))
NotPSD(C) == \E v \in (-5..5) \X (-5..5) : RatSign(QuadForm(C, v)) < 0

\* C8: the model builder raises, returns no distribution and leaves the
\* caller without a model whenever the rotated covariance is not positive
\* semi-definite, as it is for every negative width or length, or the
\* centroid is not a 2-vector; and what it raises is the same for every psi.
C8_InvalidShowerRejected ==
  IsShower =>
    LET p == argv.shower
    IN /\ (p.width < 0 \/ p.length < 0) => NotPSD(ret.cov)
       /\ (NotPSD(ret.cov) \/ Len(p.centroid) # 2)
            => (ret.raised # "none" /\ ~ret.dist.built /\ ~model.built)
       /\ \A psi \in Rotations :
            generate_2d_shower_model(p.centroid, p.width, p.length, psi).raised
              = ret.raised

\* C8 witness: a 2-vector centroid, a negative width and an oblique psi
C8_Witness ==
  /\ IsShower
  /\ Len(argv.shower.centroid) = 2
  /\ argv.shower.width < 0
  /\ argv.shower.length > 0
  /\ argv.shower.psi.s5 = 4
  /\ ret.raised = "ValueError"

TestPoints == (-2..2) \X (-2..2)

\* C9: psi and psi + pi give the same rotated covariance, the same outcome
\* and the same density exponent at every point, and psi = 0 gives exactly
\* diag(length, width).
C9_PsiSymmetry ==
  IsShower =>
    LET p == argv.shower
        other == generate_2d_shower_model(p.centroid, p.width, p.length,
                                          PsiPlusPi(p.psi))
    IN /\ rotated_covariance(p.length, p.width, PsiPlusPi(p.psi)) = ret.cov
       /\ other.raised = ret.raised
       /\ ret.raised = "none" =>
            /\ Det(other.obj.cov) = Det(ret.dist.cov)
            /\ \A pt \in TestPoints :
                 Mahalanobis(other.obj, pt) = Mahalanobis(ret.dist, pt)
       /\ p.psi = PsiZero =>
            ret.cov = <<<<<<p.length, 1>>, <<0, 1>>>>,
                        <<<<0, 1>>, <<p.width, 1>>>>>>

\* C9 witness: a model built at an oblique psi with length # width, whose
\* covariance has off-diagonal terms
C9_Witness ==
  /\ IsShower
  /\ ret.raised = "none"
  /\ argv.shower.length # argv.shower.width
  /\ argv.shower.psi.s5 = 4
  /\ ret.cov[1][2] # <<0, 1>>

\* what a call returns is computed from the present geometry and arguments:
\* each expected count is the conversion of this call's density * intensity,
\* and no signal is drawn where the expected count is 0
C10_FreshResult ==
  /\ \A k \in Pixels :
       \E ub \in Int32Overflow :
         ret.model_counts[k]
           = astype_int32(DensAt(k), argv.image.intensity, ub)
  /\ ret.raised = "none" =>
       /\ Len(ret.signal) = Len(geom.pix_x)
       /\ Len(ret.noise) = Len(geom.pix_x)
       /\ \A k \in Pixels : ret.model_counts[k] = 0 => ret.signal[k] = 0

\* C10: a rasterizer call leaves the geometry, the shower model and the
\* caller's arguments as they were, and what it computes is determined by the
\* geometry, its arguments and its draws alone.
C10_CallsAreIndependent ==
  [][ret'.op = "make_toymodel_shower_image" =>
       /\ geom' = geom
       /\ model' = model
       /\ argv' = argv
       /\ C10_FreshResult']_vars

\* C10 witness: a call that returns after an earlier call has drawn variates
C10_Witness ==
  /\ Returned
  /\ model.built
  /\ rng > 2 * Len(ret.signal)

====
